---- MODULE Spec2Model ----
(***************************************************************************)
(* A model of pymotdstats.py, a message-of-the-day status reporter.  The   *)
(* script runs once, top to bottom: it loads its settings, runs the probes *)
(* one after the other, classifies the measurements against the thresholds *)
(* and renders three columns.  An exception that no handler catches ends   *)
(* the run at the statement that raised it: pc stays on that statement and *)
(* exc names the exception.                                                *)
(*                                                                         *)
(* Python values that may be an int, None or a string are records          *)
(* [t, v]: t is the type tag and v the integer (0 when there is none).     *)
(* A Protocol member is represented by its value ('tcp', ...), which is    *)
(* what Protocol.__eq__ and Protocol.__hash__ compare.                     *)
(***************************************************************************)
EXTENDS Integers, Sequences, FiniteSets, TLC

VARIABLES
    os,                 \* the operating system's state read by the probes
    ini,                \* keys of /etc/pymotdstats.ini with their raw text
    pc,                 \* the statement the script is at
    exc,                \* the uncaught exception that ended the run, or "none"
    config,
    fs_exclude, ports_to_monitor, services_to_monitor,
    DISK_WARNING, DISK_CRITICAL, MEM_WARNING, MEM_CRITICAL,
    SWAP_WARNING, SWAP_CRITICAL,
    hostname, uptime, iface, ip, users,
    mount_points, disk_space, meminfo,
    checked_ports, checked_services,
    columns,
    disk_status_color, memory_status_color, services_ports_status_color,
    percents,           \* mem_perc, swap_perc, buffers_perc, cached_perc, reclaimable_perc
    todo,               \* the rows a running for loop has still to visit
    call                \* a direct call of a function of the module: its argument

vars == <<os, ini, pc, exc, config, fs_exclude, ports_to_monitor,
          services_to_monitor, DISK_WARNING, DISK_CRITICAL, MEM_WARNING,
          MEM_CRITICAL, SWAP_WARNING, SWAP_CRITICAL, hostname, uptime, iface,
          ip, users, mount_points, disk_space, meminfo, checked_ports,
          checked_services, columns, disk_status_color, memory_status_color,
          services_ports_status_color, percents, todo, call>>

----------------------------------------------------------------------------
(* Bounds of the model *)

\* the settings file holds at most this many keys
MaxIniKeys == 2
\* /etc/fstab holds at most this many lines
MaxFstabLines == 2
\* a line of /etc/fstab holds at most this many fields
MaxFields == 6
\* df reports at most this many rows
MaxDfRows == 2
\* MemTotal and SwapTotal of /proc/meminfo, in KiB, when they are not 0
TotalKiB == 20
\* pgrep finds at most this many processes of one name
MaxProcs == 2

----------------------------------------------------------------------------
(* Python values *)

IntVal(n) == [t |-> "int", v |-> n]
NoneVal == [t |-> "None", v |-> 0]
\* the string '---'
Dashes == [t |-> "str", v |-> 0]

\* bool(x) of an int or None
Truthy(x) == x.t = "int" /\ x.v # 0

\* x or d
PyOr(x, d) == IF Truthy(x) THEN x ELSE d

\* int(num / den) for den > 0: the quotient truncated toward zero
PyIntDiv(num, den) ==
    IF num >= 0 THEN num \div den ELSE -((-num) \div den)

\* the result of a call: a value, or an exception that leaves the function
Ret(x) == [exc |-> "none", val |-> x]
Raise(e) == [exc |-> e, val |-> 0]

----------------------------------------------------------------------------
(* Constants of the program *)

UNKNOWN == "Unknown"
UNKNOWN_ADDRESS == "Unknown address"
UNKNOWN_UPTIME == "Unknown uptime"

\* class Protocol
Protocol == {"tcp", "tcp6", "udp", "udp6"}

\* Protocol.from_value
from_value(_value) ==
    IF \E p \in Protocol : p = _value
    THEN CHOOSE p \in Protocol : p = _value
    ELSE "None"

\* class TermColor: the colours the classification uses
red == "red"
orange == "orange"
green == "green"

ThresholdKeys == {"disk_warning", "disk_critical", "mem_warning",
                  "mem_critical", "swap_warning", "swap_critical"}
PortKeys == {"tcp_ports_to_monitor", "tcp6_ports_to_monitor",
             "udp_ports_to_monitor", "udp6_ports_to_monitor"}

\* the second argument of config.get at lines 470-475
DefaultThreshold(k) ==
    CASE k = "disk_warning" -> 80
      [] k = "disk_critical" -> 90
      [] k = "mem_warning" -> 80
      [] k = "mem_critical" -> 90
      [] k = "swap_warning" -> 10
      [] k = "swap_critical" -> 20

----------------------------------------------------------------------------
(* get_config: the settings dict of the ini file.  The raw text of a       *)
(* threshold is [t |-> "int", v |-> n] when int() parses it as n and       *)
(* [t |-> "text", v |-> 0] when int() raises ValueError.  The raw text of  *)
(* a list is the sequence of its stripped comma-separated tokens; a token  *)
(* of a port list is again "int" or "text", or "empty" for ''.             *)

get_config_threshold(raw) ==
    IF raw.t = "int" THEN IntVal(raw.v) ELSE NoneVal

get_config_set(raw) ==
    {raw[i] : i \in DOMAIN raw} \ {""}

get_config_ports(raw) ==
    LET kept == {raw[i] : i \in DOMAIN raw} \ {[t |-> "empty", v |-> 0]}
    IN  IF \E x \in kept : x.t # "int" THEN {} ELSE {x.v : x \in kept}

get_config(_ini_file) ==
    [k \in DOMAIN _ini_file |->
        IF k \in ThresholdKeys THEN get_config_threshold(_ini_file[k])
        ELSE IF k \in PortKeys THEN get_config_ports(_ini_file[k])
        ELSE get_config_set(_ini_file[k])]

\* config.get(k, default)
ConfigGet(cfg, k, default) ==
    IF k \in DOMAIN cfg THEN cfg[k] ELSE default

\* lines 470-475: config.get(k, d) or d
Threshold(cfg, k) ==
    PyOr(ConfigGet(cfg, k, IntVal(DefaultThreshold(k))),
         IntVal(DefaultThreshold(k))).v

\* lines 462-466
PortsToMonitor(cfg) ==
    {<<p, "tcp">> : p \in ConfigGet(cfg, "tcp_ports_to_monitor", {})}
    \cup {<<p, "tcp6">> : p \in ConfigGet(cfg, "tcp6_ports_to_monitor", {})}
    \cup {<<p, "udp">> : p \in ConfigGet(cfg, "udp_ports_to_monitor", {})}
    \cup {<<p, "udp6">> : p \in ConfigGet(cfg, "udp6_ports_to_monitor", {})}

----------------------------------------------------------------------------
(* The probes.  os.tools[t] says what running the command t does:          *)
(* "absent" (FileNotFoundError), "error" (a non-zero exit status:          *)
(* check_output raises CalledProcessError) or "ok".                        *)

Tools == {"hostname", "uptime", "ip", "who", "df", "netstat", "pgrep"}
ToolStatus == {"absent", "error", "ok"}

\* check_output(cmd): the exception it raises, or "none"
check_output(tool) ==
    CASE os.tools[tool] = "absent" -> "FileNotFoundError"
      [] os.tools[tool] = "error" -> "CalledProcessError"
      [] OTHER -> "none"

get_hostname ==
    CASE check_output("hostname") = "none" -> Ret(os.hostname)
      [] check_output("hostname") = "FileNotFoundError" -> Ret(UNKNOWN)
      [] OTHER -> Raise(check_output("hostname"))

get_uptime ==
    CASE check_output("uptime") = "none" -> Ret(os.uptime)
      [] check_output("uptime") = "FileNotFoundError" -> Ret(UNKNOWN_UPTIME)
      [] OTHER -> Raise(check_output("uptime"))

\* os.route: "missing" (no /proc/net/route), "None" (no line whose
\* destination is 00000000) or the interface of the default route
get_default_iface ==
    IF os.route = "missing" THEN "None" ELSE os.route

\* os.ip_src: the word after 'src' in the tool's output, "None" without one
get_ip(_iface) ==
    IF _iface = "None" THEN Ret(UNKNOWN_ADDRESS)
    ELSE CASE check_output("ip") = "none" ->
                  IF os.ip_src # "None" THEN Ret(os.ip_src)
                  ELSE Ret(UNKNOWN_ADDRESS)
           [] check_output("ip") = "FileNotFoundError" -> Ret(UNKNOWN_ADDRESS)
           [] OTHER -> Raise(check_output("ip"))

\* os.who: the first word of each line of the tool's output
get_users ==
    CASE check_output("who") = "none" ->
              Ret({os.who[i] : i \in DOMAIN os.who})
      [] check_output("who") = "FileNotFoundError" -> Ret({})
      [] OTHER -> Raise(check_output("who"))


\* the words of /etc/fstab that begin with '#': re.compile(r'^\s*#')
\* matches a line exactly when its first word is one of them
HashWords == {"#", "#/dev/sdb1"}
pattern_match(line) == Len(line) > 0 /\ line[1] \in HashWords

ignore_words == {"debugfs", "devpts", "proc", "sysfs", "tmpfs"}

\* lines 265-269 for one line (the list of its words) of /etc/fstab:
\* the mount points after it, or the IndexError of array[2]
mount_points_line(acc, array) ==
    IF pattern_match(array) THEN Ret(acc)
    ELSE IF Len(array) >= 2
         THEN IF array[1] \notin ignore_words
              THEN IF Len(array) < 3 THEN Raise("IndexError")
                   ELSE IF array[3] # "swap"
                        THEN Ret(acc \cup {array[2]})
                        ELSE Ret(acc)
              ELSE Ret(acc)
         ELSE Ret(acc)

RECURSIVE mount_points_loop(_, _)
mount_points_loop(acc, lines) ==
    IF lines = <<>> THEN Ret(acc)
    ELSE LET r == mount_points_line(acc, Head(lines))
         IN  IF r.exc # "none" THEN r
             ELSE mount_points_loop(r.val, Tail(lines))

\* os.fstab: whether /etc/fstab exists, and its lines
get_mount_points ==
    IF ~os.fstab.exists THEN Ret({})
    ELSE mount_points_loop({}, os.fstab.lines)

\* results[array[5]] = result: a dict keeps the place of a key it already holds
dict_set(results, row) ==
    IF \E i \in DOMAIN results : results[i].mount = row.mount
    THEN [i \in DOMAIN results |->
             IF results[i].mount = row.mount THEN row ELSE results[i]]
    ELSE Append(results, row)

RECURSIVE disk_space_loop(_, _, _, _)
disk_space_loop(results, rows, _mount_points, _exclude) ==
    IF rows = <<>> THEN results
    ELSE LET row == Head(rows)
             next == IF row.mount \in _mount_points /\ row.mount \notin _exclude
                     THEN dict_set(results, row)
                     ELSE results
         IN  disk_space_loop(next, Tail(rows), _mount_points, _exclude)

\* os.df: the rows of df -h, each with its mount point (array[5]) and its
\* use% (int(array[4][:-1])).  The dict is the sequence of its items in
\* insertion order, which is the order a for loop visits them in.
get_disk_space(_mount_points, _exclude) ==
    CASE check_output("df") = "none" ->
              Ret(disk_space_loop(<<>>, os.df, _mount_points, _exclude))
      [] check_output("df") = "FileNotFoundError" -> Ret(<<>>)
      [] OTHER -> Raise(check_output("df"))

MeminfoKeys == {"MemFree", "MemTotal", "SwapFree", "SwapTotal",
                "Buffers", "Cached", "SReclaimable"}

\* os.meminfo: whether /proc/meminfo exists, and the number of each of
\* its lines by key
get_meminfo ==
    IF ~os.meminfo.exists THEN [k \in {} |-> 0]
    ELSE [k \in (DOMAIN os.meminfo.kv) \cap MeminfoKeys |-> os.meminfo.kv[k]]

\* line 348: the condition on one line of netstat -nlp
is_listening(line) ==
    \/ line.proto \in {"tcp", "tcp6"} /\ line.state = "LISTEN"
    \/ line.proto \in {"udp", "udp6"}

\* os.netstat: the lines of netstat -nlp, each with its protocol
\* (array[0]), the port of its local address and its state (array[5])
get_listening_ports ==
    CASE check_output("netstat") = "none" ->
              Ret({<<line.port, from_value(line.proto)>> :
                      line \in {l \in os.netstat : is_listening(l)}})
      [] check_output("netstat") = "FileNotFoundError" -> Ret({})
      [] OTHER -> Raise(check_output("netstat"))

\* ports_on_error that compares the port numbers and not the protocols
ports_on_error_by_number(_ports_to_monitor, listening_ports) ==
    {p \in _ports_to_monitor : \A l \in listening_ports : l[1] # p[1]}

\* line 373
ports_on_error(_ports_to_monitor, listening_ports) ==
    _ports_to_monitor \ listening_ports

\* line 374
ports_on_success(_ports_to_monitor, on_error) ==
    _ports_to_monitor \ on_error

get_checked_ports(_ports_to_monitor) ==
    LET r == get_listening_ports
        on_error == ports_on_error(_ports_to_monitor, r.val)
        on_success == ports_on_success(_ports_to_monitor, on_error)
    IN  IF r.exc # "none" THEN r
        ELSE Ret([p \in on_error \cup on_success |-> p \in on_success])

\* len(output.strip().split('\n')) for an output of n lines: splitting the
\* empty string gives ['']
split_len(n) == IF n = 0 THEN 1 ELSE n

\* lines 397-404 for one name.  os.procs[s] is the number of processes
\* named s; pgrep exits with 1 when it matches none.
service_running(s) ==
    CASE check_output("pgrep") = "FileNotFoundError" -> FALSE
      [] check_output("pgrep") = "CalledProcessError" -> FALSE
      [] os.procs[s] = 0 -> FALSE
      [] OTHER -> split_len(os.procs[s]) > 0

\* the loop of line 396 runs over the module's services_to_monitor, not
\* over the parameter
get_checked_services(_services_to_monitor) ==
    [s \in services_to_monitor |-> service_running(s)]

----------------------------------------------------------------------------
(* The classification *)

\* text_color with thresholds that are exclusive bounds
text_color_exclusive(_percent, _warn_threshold, _crit_threshold) ==
    IF _percent.t # "int" THEN Raise("TypeError")
    ELSE IF _percent.v > _crit_threshold THEN Ret(red)
    ELSE IF _percent.v > _warn_threshold THEN Ret(orange)
    ELSE Ret(green)

\* lines 447-452 of add_memory_row; comparing '---' with an int raises
\* TypeError
text_color(_percent, _warn_threshold, _crit_threshold) ==
    IF _percent.t # "int" THEN Raise("TypeError")
    ELSE IF _percent.v >= _crit_threshold THEN Ret(red)
    ELSE IF _percent.v >= _warn_threshold THEN Ret(orange)
    ELSE Ret(green)

\* lines 589-594
partition_color(use, warning, critical) ==
    IF use >= critical THEN red
    ELSE IF use >= warning THEN orange
    ELSE green

\* disk_status_step without the test that keeps a critical status
disk_status_step_unguarded(color, use, warning, critical) ==
    IF use >= critical THEN red
    ELSE IF use >= warning THEN orange
    ELSE color

\* lines 511-515: one pass of the rollup loop
disk_status_step(color, use, warning, critical) ==
    IF use >= critical THEN red
    ELSE IF use >= warning /\ color # red THEN orange
    ELSE color


\* lines 526-541: the percentages, or the exception of the first
\* statement that raises (a key /proc/meminfo did not hold, MemTotal = 0)
memory_percents(m) ==
    IF {"MemFree", "MemTotal"} \ DOMAIN m # {} THEN Raise("KeyError")
    ELSE IF m["MemTotal"] = 0 THEN Raise("ZeroDivisionError")
    ELSE IF "SwapTotal" \notin DOMAIN m THEN Raise("KeyError")
    ELSE IF m["SwapTotal"] # 0 /\ "SwapFree" \notin DOMAIN m
         THEN Raise("KeyError")
    ELSE IF {"Buffers", "Cached", "SReclaimable"} \ DOMAIN m # {}
         THEN Raise("KeyError")
    ELSE Ret([mem_perc |->
                  IntVal(PyIntDiv(100 * m["MemTotal"] - 100 * m["MemFree"],
                                  m["MemTotal"])),
              swap_perc |->
                  IF m["SwapTotal"] = 0 THEN Dashes
                  ELSE IntVal(PyIntDiv(100 * m["SwapTotal"]
                                           - 100 * m["SwapFree"],
                                       m["SwapTotal"])),
              buffers_perc |->
                  IntVal(PyIntDiv(100 * m["Buffers"], m["MemTotal"])),
              cached_perc |->
                  IntVal(PyIntDiv(100 * m["Cached"], m["MemTotal"])),
              reclaimable_perc |->
                  IntVal(PyIntDiv(100 * m["SReclaimable"], m["MemTotal"]))])

\* x >= threshold for the operands of lines 543-547
ge(x, threshold) == x.v >= threshold

\* memory_status with swap_perc compared with the memory thresholds
memory_status_mem_only(p, mem_warning, mem_critical, swap_warning, swap_critical) ==
    IF ge(p.mem_perc, mem_critical) THEN Ret(red)
    ELSE IF p.swap_perc.t # "int" THEN Raise("TypeError")
    ELSE IF \/ ge(p.swap_perc, mem_critical)
            \/ ge(p.buffers_perc, mem_critical)
            \/ ge(p.cached_perc, mem_critical)
         THEN Ret(red)
    ELSE IF \/ ge(p.mem_perc, mem_warning)
            \/ ge(p.swap_perc, mem_warning)
            \/ ge(p.buffers_perc, mem_warning)
            \/ ge(p.cached_perc, mem_warning)
         THEN Ret(orange)
    ELSE Ret(green)

\* lines 543-550: 'or' stops at its first true operand; comparing the
\* swap_perc '---' with an int raises TypeError
memory_status(p, mem_warning, mem_critical, swap_warning, swap_critical) ==
    IF ge(p.mem_perc, mem_critical) THEN Ret(red)
    ELSE IF p.swap_perc.t # "int" THEN Raise("TypeError")
    ELSE IF \/ ge(p.swap_perc, swap_critical)
            \/ ge(p.buffers_perc, mem_critical)
            \/ ge(p.cached_perc, mem_critical)
         THEN Ret(red)
    ELSE IF \/ ge(p.mem_perc, mem_warning)
            \/ ge(p.swap_perc, swap_warning)
            \/ ge(p.buffers_perc, mem_warning)
            \/ ge(p.cached_perc, mem_warning)
         THEN Ret(orange)
    ELSE Ret(green)

\* a row of a column: its colour, its title and the percentage it shows
Row(color, title, percent) ==
    [color |-> color, title |-> title, percent |-> percent]

\* add_memory_row: the rows with the new row appended, or its TypeError
add_memory_row(_rows, _warn_threshold, _crit_threshold, _title, _percent) ==
    LET c == text_color(_percent, _warn_threshold, _crit_threshold)
    IN  IF c.exc # "none" THEN c
        ELSE Ret(Append(_rows, Row(c.val, _title, _percent)))

\* lines 553-562: the five calls in turn; rows holds what the calls before
\* the first that raises have appended
RECURSIVE memory_rows(_, _)
memory_rows(rows, calls) ==
    IF calls = <<>> THEN [exc |-> "none", rows |-> rows]
    ELSE LET a == Head(calls)
             r == add_memory_row(rows, a.warn, a.crit, a.title, a.percent)
         IN  IF r.exc # "none" THEN [exc |-> r.exc, rows |-> rows]
             ELSE memory_rows(r.val, Tail(calls))

MemoryCalls(p, mem_warning, mem_critical, swap_warning, swap_critical) ==
    << [warn |-> mem_warning, crit |-> mem_critical,
        title |-> "Memory", percent |-> p.mem_perc],
       [warn |-> swap_warning, crit |-> swap_critical,
        title |-> "Swap", percent |-> p.swap_perc],
       [warn |-> mem_warning, crit |-> mem_critical,
        title |-> "Buffers", percent |-> p.buffers_perc],
       [warn |-> mem_warning, crit |-> mem_critical,
        title |-> "Cached", percent |-> p.cached_perc],
       [warn |-> mem_warning, crit |-> mem_critical,
        title |-> "Reclaimable", percent |-> p.reclaimable_perc] >>

\* services_ports_status that looks at the ports alone
services_ports_status_ports_only(ports, services) ==
    IF \A p \in DOMAIN ports : ports[p] THEN green ELSE red

\* line 574: all(checked_ports.values()) and all(checked_services.values())
services_ports_status(ports, services) ==
    IF (\A p \in DOMAIN ports : ports[p])
       /\ (\A s \in DOMAIN services : services[s])
    THEN green
    ELSE red


----------------------------------------------------------------------------
(* The run of the script, one action per statement or block.  The load   *)
(* averages, the process count and the CPU count (lines 492, 493, 637)   *)
(* are only printed and are left out.                                    *)

\* lines 458-475: the settings and what the module derives from them
LoadConfig ==
    /\ pc = "config" /\ exc = "none"
    /\ config' = get_config(ini)
    /\ fs_exclude' = ConfigGet(config', "fs_exclude", {})
    /\ ports_to_monitor' = PortsToMonitor(config')
    /\ services_to_monitor' = ConfigGet(config', "services_to_monitor", {})
    /\ DISK_WARNING' = Threshold(config', "disk_warning")
    /\ DISK_CRITICAL' = Threshold(config', "disk_critical")
    /\ MEM_WARNING' = Threshold(config', "mem_warning")
    /\ MEM_CRITICAL' = Threshold(config', "mem_critical")
    /\ SWAP_WARNING' = Threshold(config', "swap_warning")
    /\ SWAP_CRITICAL' = Threshold(config', "swap_critical")
    /\ pc' = "hostname"
    /\ UNCHANGED <<os, ini, exc, hostname, uptime, iface, ip, users,
                 mount_points, disk_space, meminfo, checked_ports,
                 checked_services, columns, disk_status_color,
                 memory_status_color, services_ports_status_color,
                 percents, todo, call>>

\* line 488
GetHostname ==
    /\ pc = "hostname" /\ exc = "none"
    /\ LET r == get_hostname
       IN  /\ exc' = r.exc
           /\ pc' = IF r.exc = "none" THEN "uptime" ELSE pc
           /\ hostname' = IF r.exc = "none" THEN r.val ELSE hostname
    /\ UNCHANGED <<os, ini, config, fs_exclude, ports_to_monitor,
                 services_to_monitor, DISK_WARNING, DISK_CRITICAL,
                 MEM_WARNING, MEM_CRITICAL, SWAP_WARNING, SWAP_CRITICAL,
                 uptime, iface, ip, users, mount_points, disk_space,
                 meminfo, checked_ports, checked_services, columns,
                 disk_status_color, memory_status_color,
                 services_ports_status_color, percents, todo, call>>

\* line 489
GetUptime ==
    /\ pc = "uptime" /\ exc = "none"
    /\ LET r == get_uptime
       IN  /\ exc' = r.exc
           /\ pc' = IF r.exc = "none" THEN "iface" ELSE pc
           /\ uptime' = IF r.exc = "none" THEN r.val ELSE uptime
    /\ UNCHANGED <<os, ini, config, fs_exclude, ports_to_monitor,
                 services_to_monitor, DISK_WARNING, DISK_CRITICAL,
                 MEM_WARNING, MEM_CRITICAL, SWAP_WARNING, SWAP_CRITICAL,
                 hostname, iface, ip, users, mount_points, disk_space,
                 meminfo, checked_ports, checked_services, columns,
                 disk_status_color, memory_status_color,
                 services_ports_status_color, percents, todo, call>>

\* line 490
GetDefaultIface ==
    /\ pc = "iface" /\ exc = "none"
    /\ iface' = get_default_iface
    /\ pc' = "ip"
    /\ UNCHANGED <<os, ini, exc, config, fs_exclude, ports_to_monitor,
                 services_to_monitor, DISK_WARNING, DISK_CRITICAL,
                 MEM_WARNING, MEM_CRITICAL, SWAP_WARNING, SWAP_CRITICAL,
                 hostname, uptime, ip, users, mount_points, disk_space,
                 meminfo, checked_ports, checked_services, columns,
                 disk_status_color, memory_status_color,
                 services_ports_status_color, percents, todo, call>>

\* line 491
GetIp ==
    /\ pc = "ip" /\ exc = "none"
    /\ LET r == get_ip(iface)
       IN  /\ exc' = r.exc
           /\ pc' = IF r.exc = "none" THEN "users" ELSE pc
           /\ ip' = IF r.exc = "none" THEN r.val ELSE ip
    /\ UNCHANGED <<os, ini, config, fs_exclude, ports_to_monitor,
                 services_to_monitor, DISK_WARNING, DISK_CRITICAL,
                 MEM_WARNING, MEM_CRITICAL, SWAP_WARNING, SWAP_CRITICAL,
                 hostname, uptime, iface, users, mount_points, disk_space,
                 meminfo, checked_ports, checked_services, columns,
                 disk_status_color, memory_status_color,
                 services_ports_status_color, percents, todo, call>>

\* line 494
GetUsers ==
    /\ pc = "users" /\ exc = "none"
    /\ LET r == get_users
       IN  /\ exc' = r.exc
           /\ pc' = IF r.exc = "none" THEN "mount_points" ELSE pc
           /\ users' = IF r.exc = "none" THEN r.val ELSE users
    /\ UNCHANGED <<os, ini, config, fs_exclude, ports_to_monitor,
                 services_to_monitor, DISK_WARNING, DISK_CRITICAL,
                 MEM_WARNING, MEM_CRITICAL, SWAP_WARNING, SWAP_CRITICAL,
                 hostname, uptime, iface, ip, mount_points, disk_space,
                 meminfo, checked_ports, checked_services, columns,
                 disk_status_color, memory_status_color,
                 services_ports_status_color, percents, todo, call>>

\* line 495
GetMountPoints ==
    /\ pc = "mount_points" /\ exc = "none"
    /\ LET r == get_mount_points
       IN  /\ exc' = r.exc
           /\ pc' = IF r.exc = "none" THEN "disk_space" ELSE pc
           /\ mount_points' = IF r.exc = "none" THEN r.val ELSE mount_points
    /\ UNCHANGED <<os, ini, config, fs_exclude, ports_to_monitor,
                 services_to_monitor, DISK_WARNING, DISK_CRITICAL,
                 MEM_WARNING, MEM_CRITICAL, SWAP_WARNING, SWAP_CRITICAL,
                 hostname, uptime, iface, ip, users, disk_space, meminfo,
                 checked_ports, checked_services, columns,
                 disk_status_color, memory_status_color,
                 services_ports_status_color, percents, todo, call>>

\* line 496
GetDiskSpace ==
    /\ pc = "disk_space" /\ exc = "none"
    /\ LET r == get_disk_space(mount_points, fs_exclude)
       IN  /\ exc' = r.exc
           /\ pc' = IF r.exc = "none" THEN "meminfo" ELSE pc
           /\ disk_space' = IF r.exc = "none" THEN r.val ELSE disk_space
    /\ UNCHANGED <<os, ini, config, fs_exclude, ports_to_monitor,
                 services_to_monitor, DISK_WARNING, DISK_CRITICAL,
                 MEM_WARNING, MEM_CRITICAL, SWAP_WARNING, SWAP_CRITICAL,
                 hostname, uptime, iface, ip, users, mount_points, meminfo,
                 checked_ports, checked_services, columns,
                 disk_status_color, memory_status_color,
                 services_ports_status_color, percents, todo, call>>

\* line 498
GetMeminfo ==
    /\ pc = "meminfo" /\ exc = "none"
    /\ meminfo' = get_meminfo
    /\ pc' = "checked_ports"
    /\ UNCHANGED <<os, ini, exc, config, fs_exclude, ports_to_monitor,
                 services_to_monitor, DISK_WARNING, DISK_CRITICAL,
                 MEM_WARNING, MEM_CRITICAL, SWAP_WARNING, SWAP_CRITICAL,
                 hostname, uptime, iface, ip, users, mount_points,
                 disk_space, checked_ports, checked_services, columns,
                 disk_status_color, memory_status_color,
                 services_ports_status_color, percents, todo, call>>

\* line 500
GetCheckedPorts ==
    /\ pc = "checked_ports" /\ exc = "none"
    /\ LET r == get_checked_ports(ports_to_monitor)
       IN  /\ exc' = r.exc
           /\ pc' = IF r.exc = "none" THEN "checked_services" ELSE pc
           /\ checked_ports' = IF r.exc = "none" THEN r.val ELSE checked_ports
    /\ UNCHANGED <<os, ini, config, fs_exclude, ports_to_monitor,
                 services_to_monitor, DISK_WARNING, DISK_CRITICAL,
                 MEM_WARNING, MEM_CRITICAL, SWAP_WARNING, SWAP_CRITICAL,
                 hostname, uptime, iface, ip, users, mount_points,
                 disk_space, meminfo, checked_services, columns,
                 disk_status_color, memory_status_color,
                 services_ports_status_color, percents, todo, call>>

\* line 501
GetCheckedServices ==
    /\ pc = "checked_services" /\ exc = "none"
    /\ checked_services' = get_checked_services(services_to_monitor)
    /\ pc' = "disk_status"
    /\ UNCHANGED <<os, ini, exc, config, fs_exclude, ports_to_monitor,
                 services_to_monitor, DISK_WARNING, DISK_CRITICAL,
                 MEM_WARNING, MEM_CRITICAL, SWAP_WARNING, SWAP_CRITICAL,
                 hostname, uptime, iface, ip, users, mount_points,
                 disk_space, meminfo, checked_ports, columns,
                 disk_status_color, memory_status_color,
                 services_ports_status_color, percents, todo, call>>

\* lines 503-510: the empty columns, the rollup's first colour, and the
\* for loop's iterator over disk_space
DiskStatusStart ==
    /\ pc = "disk_status" /\ exc = "none"
    /\ columns' = [i \in 0..2 |-> <<>>]
    /\ disk_status_color' = green
    /\ todo' = disk_space
    /\ pc' = "disk_loop"
    /\ UNCHANGED <<os, ini, exc, config, fs_exclude, ports_to_monitor,
                 services_to_monitor, DISK_WARNING, DISK_CRITICAL,
                 MEM_WARNING, MEM_CRITICAL, SWAP_WARNING, SWAP_CRITICAL,
                 hostname, uptime, iface, ip, users, mount_points,
                 disk_space, meminfo, checked_ports, checked_services,
                 memory_status_color, services_ports_status_color,
                 percents, call>>

\* lines 510-515: one pass of the rollup loop, or its end
DiskStatusLoop ==
    /\ pc = "disk_loop" /\ exc = "none"
    /\ IF todo # <<>>
       THEN /\ disk_status_color' =
                   disk_status_step(disk_status_color, Head(todo).use,
                                    DISK_WARNING, DISK_CRITICAL)
            /\ todo' = Tail(todo)
            /\ pc' = pc
       ELSE /\ pc' = "disk_header"
            /\ UNCHANGED <<disk_status_color, todo>>
    /\ UNCHANGED <<os, ini, exc, config, fs_exclude, ports_to_monitor,
                 services_to_monitor, DISK_WARNING, DISK_CRITICAL,
                 MEM_WARNING, MEM_CRITICAL, SWAP_WARNING, SWAP_CRITICAL,
                 hostname, uptime, iface, ip, users, mount_points,
                 disk_space, meminfo, checked_ports, checked_services,
                 columns, memory_status_color, services_ports_status_color,
                 percents, call>>

\* lines 517-523
DiskHeader ==
    /\ pc = "disk_header" /\ exc = "none"
    /\ columns' = [columns EXCEPT ![0] =
           columns[0] \o << Row(disk_status_color, "Disk status", NoneVal),
                            Row("bold", "Partition", NoneVal) >>]
    /\ pc' = "memory"
    /\ UNCHANGED <<os, ini, exc, config, fs_exclude, ports_to_monitor,
                 services_to_monitor, DISK_WARNING, DISK_CRITICAL,
                 MEM_WARNING, MEM_CRITICAL, SWAP_WARNING, SWAP_CRITICAL,
                 hostname, uptime, iface, ip, users, mount_points,
                 disk_space, meminfo, checked_ports, checked_services,
                 disk_status_color, memory_status_color,
                 services_ports_status_color, percents, todo, call>>

\* lines 525-541, or 563-564 when meminfo is empty
MemoryPercents ==
    /\ pc = "memory" /\ exc = "none"
    /\ IF DOMAIN meminfo # {}
       THEN LET r == memory_percents(meminfo)
            IN  /\ exc' = r.exc
                /\ pc' = IF r.exc = "none" THEN "memory_status" ELSE pc
                /\ percents' = IF r.exc = "none" THEN r.val ELSE percents
                /\ UNCHANGED memory_status_color
       ELSE /\ memory_status_color' = green
            /\ pc' = "memory_header"
            /\ UNCHANGED <<exc, percents>>
    /\ UNCHANGED <<os, ini, config, fs_exclude, ports_to_monitor,
                 services_to_monitor, DISK_WARNING, DISK_CRITICAL,
                 MEM_WARNING, MEM_CRITICAL, SWAP_WARNING, SWAP_CRITICAL,
                 hostname, uptime, iface, ip, users, mount_points,
                 disk_space, meminfo, checked_ports, checked_services,
                 columns, disk_status_color, services_ports_status_color,
                 todo, call>>

\* lines 543-550
MemoryStatus ==
    /\ pc = "memory_status" /\ exc = "none"
    /\ LET r == memory_status(percents, MEM_WARNING, MEM_CRITICAL,
                              SWAP_WARNING, SWAP_CRITICAL)
       IN  /\ exc' = r.exc
           /\ pc' = IF r.exc = "none" THEN "memory_rows" ELSE pc
           /\ memory_status_color' =
                  IF r.exc = "none" THEN r.val ELSE memory_status_color
    /\ UNCHANGED <<os, ini, config, fs_exclude, ports_to_monitor,
                 services_to_monitor, DISK_WARNING, DISK_CRITICAL,
                 MEM_WARNING, MEM_CRITICAL, SWAP_WARNING, SWAP_CRITICAL,
                 hostname, uptime, iface, ip, users, mount_points,
                 disk_space, meminfo, checked_ports, checked_services,
                 columns, disk_status_color, services_ports_status_color,
                 percents, todo, call>>

\* lines 552-562
MemoryRows ==
    /\ pc = "memory_rows" /\ exc = "none"
    /\ LET r == memory_rows(columns[1],
                            MemoryCalls(percents, MEM_WARNING, MEM_CRITICAL,
                                        SWAP_WARNING, SWAP_CRITICAL))
       IN  /\ exc' = r.exc
           /\ pc' = IF r.exc = "none" THEN "memory_header" ELSE pc
           /\ columns' = [columns EXCEPT ![1] = r.rows]
    /\ UNCHANGED <<os, ini, config, fs_exclude, ports_to_monitor,
                 services_to_monitor, DISK_WARNING, DISK_CRITICAL,
                 MEM_WARNING, MEM_CRITICAL, SWAP_WARNING, SWAP_CRITICAL,
                 hostname, uptime, iface, ip, users, mount_points,
                 disk_space, meminfo, checked_ports, checked_services,
                 disk_status_color, memory_status_color,
                 services_ports_status_color, percents, todo, call>>

\* lines 567-572: the two inserts at the head of the column
MemoryHeader ==
    /\ pc = "memory_header" /\ exc = "none"
    /\ columns' = [columns EXCEPT ![1] =
           << Row(memory_status_color, "Memory status", NoneVal),
              Row("bold", "Memory used", NoneVal) >> \o columns[1]]
    /\ pc' = "services_status"
    /\ UNCHANGED <<os, ini, exc, config, fs_exclude, ports_to_monitor,
                 services_to_monitor, DISK_WARNING, DISK_CRITICAL,
                 MEM_WARNING, MEM_CRITICAL, SWAP_WARNING, SWAP_CRITICAL,
                 hostname, uptime, iface, ip, users, mount_points,
                 disk_space, meminfo, checked_ports, checked_services,
                 disk_status_color, memory_status_color,
                 services_ports_status_color, percents, todo, call>>

\* lines 574-588: the status, its header rows, and the iterator of the loop
\* over the partitions
ServicesStatus ==
    /\ pc = "services_status" /\ exc = "none"
    /\ services_ports_status_color' =
           services_ports_status(checked_ports, checked_services)
    /\ columns' = [columns EXCEPT ![2] =
           columns[2] \o << Row(services_ports_status_color',
                                "Services status", NoneVal),
                            Row("bold", "Services/ports", NoneVal) >>]
    /\ todo' = disk_space
    /\ pc' = "partition_rows"
    /\ UNCHANGED <<os, ini, exc, config, fs_exclude, ports_to_monitor,
                 services_to_monitor, DISK_WARNING, DISK_CRITICAL,
                 MEM_WARNING, MEM_CRITICAL, SWAP_WARNING, SWAP_CRITICAL,
                 hostname, uptime, iface, ip, users, mount_points,
                 disk_space, meminfo, checked_ports, checked_services,
                 disk_status_color, memory_status_color, percents, call>>

\* lines 588-600: one pass of the loop over the partitions, or its end
PartitionRows ==
    /\ pc = "partition_rows" /\ exc = "none"
    /\ IF todo # <<>>
       THEN /\ columns' = [columns EXCEPT ![0] =
                   Append(columns[0],
                          Row(partition_color(Head(todo).use, DISK_WARNING,
                                              DISK_CRITICAL),
                              Head(todo).mount, IntVal(Head(todo).use)))]
            /\ todo' = Tail(todo)
            /\ pc' = pc
       ELSE /\ pc' = "status_rows"
            /\ UNCHANGED <<columns, todo>>
    /\ UNCHANGED <<os, ini, exc, config, fs_exclude, ports_to_monitor,
                 services_to_monitor, DISK_WARNING, DISK_CRITICAL,
                 MEM_WARNING, MEM_CRITICAL, SWAP_WARNING, SWAP_CRITICAL,
                 hostname, uptime, iface, ip, users, mount_points,
                 disk_space, meminfo, checked_ports, checked_services,
                 disk_status_color, memory_status_color,
                 services_ports_status_color, percents, call>>

\* the services and the ports of the model in sorted() order: names by
\* their text, ports by number and then by Protocol.__lt__
ServiceOrder == <<"nginx", "sshd">>
PortOrder == << <<22, "tcp">>, <<22, "tcp6">>, <<22, "udp">>, <<22, "udp6">>,
                <<80, "tcp">>, <<80, "tcp6">>, <<80, "udp">>, <<80, "udp6">> >>

\* sorted(d.keys())
sorted_keys(d, order) ==
    LET has(k) == k \in DOMAIN d IN SelectSeq(order, has)

\* lines 602-625: a row for each service and each port
status_rows(d, order) ==
    LET keys == sorted_keys(d, order)
    IN  [i \in 1..Len(keys) |->
            [color |-> IF d[keys[i]] THEN green ELSE red,
             item |-> keys[i],
             up |-> d[keys[i]]]]

StatusRows ==
    /\ pc = "status_rows" /\ exc = "none"
    /\ columns' = [columns EXCEPT ![2] =
           columns[2] \o status_rows(checked_services, ServiceOrder)
                      \o status_rows(checked_ports, PortOrder)]
    /\ pc' = "print"
    /\ UNCHANGED <<os, ini, exc, config, fs_exclude, ports_to_monitor,
                 services_to_monitor, DISK_WARNING, DISK_CRITICAL,
                 MEM_WARNING, MEM_CRITICAL, SWAP_WARNING, SWAP_CRITICAL,
                 hostname, uptime, iface, ip, users, mount_points,
                 disk_space, meminfo, checked_ports, checked_services,
                 disk_status_color, memory_status_color,
                 services_ports_status_color, percents, todo, call>>

\* lines 627-655
PrintReport ==
    /\ pc = "print" /\ exc = "none"
    /\ pc' = "done"
    /\ UNCHANGED <<os, ini, exc, config, fs_exclude, ports_to_monitor,
                 services_to_monitor, DISK_WARNING, DISK_CRITICAL,
                 MEM_WARNING, MEM_CRITICAL, SWAP_WARNING, SWAP_CRITICAL,
                 hostname, uptime, iface, ip, users, mount_points,
                 disk_space, meminfo, checked_ports, checked_services,
                 columns, disk_status_color, memory_status_color,
                 services_ports_status_color, percents, todo, call>>

Next ==
    \/ LoadConfig
    \/ GetHostname
    \/ GetUptime
    \/ GetDefaultIface
    \/ GetIp
    \/ GetUsers
    \/ GetMountPoints
    \/ GetDiskSpace
    \/ GetMeminfo
    \/ GetCheckedPorts
    \/ GetCheckedServices
    \/ DiskStatusStart
    \/ DiskStatusLoop
    \/ DiskHeader
    \/ MemoryPercents
    \/ MemoryStatus
    \/ MemoryRows
    \/ MemoryHeader
    \/ ServicesStatus
    \/ PartitionRows
    \/ StatusRows
    \/ PrintReport


----------------------------------------------------------------------------
(* The states a run starts in.  The script's own names hold nothing yet; *)
(* os and ini are what the run will read.                                *)

NoPercents ==
    [mem_perc |-> NoneVal, swap_perc |-> NoneVal, buffers_perc |-> NoneVal,
     cached_perc |-> NoneVal, reclaimable_perc |-> NoneVal]

Unassigned ==
    /\ exc = "none"
    /\ config = [k \in {} |-> 0]
    /\ fs_exclude = {} /\ ports_to_monitor = {}
    /\ DISK_WARNING = 0 /\ DISK_CRITICAL = 0
    /\ MEM_WARNING = 0 /\ MEM_CRITICAL = 0
    /\ SWAP_WARNING = 0 /\ SWAP_CRITICAL = 0
    /\ hostname = "" /\ uptime = "" /\ iface = "" /\ ip = ""
    /\ users = {} /\ mount_points = {} /\ disk_space = <<>>
    /\ meminfo = [k \in {} |-> 0]
    /\ checked_ports = [k \in {} |-> FALSE]
    /\ checked_services = [k \in {} |-> FALSE]
    /\ columns = [i \in 0..2 |-> <<>>]
    /\ disk_status_color = "" /\ memory_status_color = ""
    /\ services_ports_status_color = ""
    /\ percents = NoPercents
    /\ todo = <<>>

ScriptStart ==
    /\ Unassigned
    /\ pc = "config"
    /\ services_to_monitor = {}
    /\ call = {}

\* the names of the model
Services == {"nginx", "sshd"}
Mounts == {"/", "/home"}

\* a host on which every probe succeeds: the other families vary it
FstabLine(device, mount, type) == <<device, mount, type, "defaults", "0", "1">>

HealthyMeminfo ==
    [MemTotal |-> TotalKiB, MemFree |-> TotalKiB \div 2,
     SwapTotal |-> TotalKiB, SwapFree |-> TotalKiB,
     Buffers |-> 0, Cached |-> 0, SReclaimable |-> 0, MemAvailable |-> 0]

TypicalOS ==
    [tools |-> [t \in Tools |-> "ok"],
     hostname |-> "host", uptime |-> "up 1 day",
     route |-> "eth0", ip_src |-> "10.0.0.5",
     who |-> <<"alice", "bob", "alice">>,
     fstab |-> [exists |-> TRUE,
                lines |-> << FstabLine("/dev/sda1", "/", "ext4"),
                             FstabLine("/dev/sda2", "/home", "ext4") >>],
     df |-> << [mount |-> "/", use |-> 85], [mount |-> "/home", use |-> 50] >>,
     meminfo |-> [exists |-> TRUE, kv |-> HealthyMeminfo],
     netstat |-> {[proto |-> "tcp", port |-> 80, state |-> "LISTEN"]},
     procs |-> [s \in Services |-> 1]]

\* the settings files with at most MaxIniKeys of the keys, each with a text
\* of texts
IniFiles(keys, texts) ==
    UNION {[D -> texts] : D \in {X \in SUBSET keys : Cardinality(X) <= MaxIniKeys}}

Merge(f, g) ==
    [k \in (DOMAIN f) \cup (DOMAIN g) |-> IF k \in DOMAIN f THEN f[k] ELSE g[k]]

IntText(n) == [t |-> "int", v |-> n]
BadText == [t |-> "text", v |-> 0]
EmptyText == [t |-> "empty", v |-> 0]

\* Tools present, absent or failing; the routing table and the address
InitProbes ==
    /\ ScriptStart
    /\ \E tools \in [Tools -> ToolStatus],
          route \in {"missing", "None", "eth0"},
          src \in {"None", "10.0.0.5"} :
            os = [TypicalOS EXCEPT !.tools = tools, !.route = route,
                                   !.ip_src = src]
    /\ ini = [k \in {"services_to_monitor", "tcp_ports_to_monitor"} |->
                 IF k = "services_to_monitor" THEN <<"nginx">>
                 ELSE <<IntText(80)>>]

\* Settings of the thresholds: absent, not a number, or a number
ThresholdTexts == {BadText} \cup {IntText(n) : n \in {0, 1, 50, 100}}

InitThresholds ==
    /\ ScriptStart
    /\ os = TypicalOS
    /\ ini \in IniFiles(ThresholdKeys, ThresholdTexts)

\* Disk thresholds and the rows of df
DiskTexts == {IntText(n) : n \in {0, 50, 95}}
DfRows == [mount : Mounts, use : {0, 50, 85, 95}]
DfOutputs == UNION {[1..n -> DfRows] : n \in 0..MaxDfRows}

InitDisk ==
    /\ ScriptStart
    /\ \E df \in DfOutputs : os = [TypicalOS EXCEPT !.df = df]
    /\ \E f \in IniFiles({"disk_warning", "disk_critical"}, DiskTexts),
          g \in IniFiles({"fs_exclude"}, {<<"/home">>}) :
            /\ Cardinality(DOMAIN f) + Cardinality(DOMAIN g) <= MaxIniKeys
            /\ ini = Merge(f, g)

\* Memory and swap thresholds and the counters of /proc/meminfo
MemoryTexts == {IntText(n) : n \in {50, 95}}
FreeKiB == {1, 3, TotalKiB \div 2, TotalKiB}
PartKiB == {0, 17, 19}
SwapKiB == {<<0, 0>>} \cup {<<TotalKiB, f>> : f \in {TotalKiB \div 2, 17, TotalKiB}}

InitMemory ==
    /\ ScriptStart
    /\ \/ \E free \in FreeKiB, swap \in SwapKiB,
             buffers \in PartKiB, cached \in PartKiB :
               os = [TypicalOS EXCEPT !.meminfo.kv =
                        [HealthyMeminfo EXCEPT !.MemFree = free,
                            !.SwapTotal = swap[1], !.SwapFree = swap[2],
                            !.Buffers = buffers, !.Cached = cached]]
       \/ os = [TypicalOS EXCEPT !.meminfo.exists = FALSE]
    /\ ini \in IniFiles({"mem_warning", "mem_critical", "swap_warning",
                         "swap_critical"}, MemoryTexts)

\* Monitored ports and services, listening sockets and running processes
PortTexts == { <<IntText(80), EmptyText>>, <<IntText(22), IntText(80)>>,
               <<IntText(80), BadText>> }
ServiceTexts == { <<"nginx">>, <<"nginx", "", "sshd">> }
NetstatLines ==
    { [proto |-> "tcp", port |-> 80, state |-> "LISTEN"],
      [proto |-> "tcp", port |-> 22, state |-> "ESTABLISHED"],
      [proto |-> "tcp6", port |-> 80, state |-> "LISTEN"],
      [proto |-> "udp", port |-> 80, state |-> ""],
      [proto |-> "udp6", port |-> 80, state |-> ""] }

InitServices ==
    /\ ScriptStart
    /\ \E netstat \in SUBSET NetstatLines,
          procs \in {f \in [Services -> {0, 1, MaxProcs}] : f["sshd"] <= 1} :
            os = [TypicalOS EXCEPT !.netstat = netstat, !.procs = procs]
    /\ \E f \in IniFiles(PortKeys \ {"udp6_ports_to_monitor"}, PortTexts),
          g \in IniFiles({"services_to_monitor"}, ServiceTexts) :
            /\ Cardinality(DOMAIN f) + Cardinality(DOMAIN g) <= MaxIniKeys
            /\ ini = Merge(f, g)

\* The lines of /etc/fstab
Devices == {"/dev/sda1", "tmpfs"}
MountPaths == {"/home", "/tmp"}
FsTypes == {"ext4", "swap"}
FstabField(i) ==
    CASE i = 1 -> Devices
      [] i = 2 -> MountPaths
      [] i = 3 -> FsTypes
      [] i = 4 -> {"defaults"}
      [] OTHER -> {"0"}
FstabWords(n) == {l \in [1..n -> Devices \cup MountPaths \cup FsTypes
                                  \cup {"defaults", "0"}] :
                     \A i \in 1..n : l[i] \in FstabField(i)}
FstabLines ==
    UNION {FstabWords(n) : n \in {0, 1, 2, 3, MaxFields}}
    \cup {<<"#">>, <<"#/dev/sdb1", "/home", "ext4">>}
FstabFiles == UNION {[1..n -> FstabLines] : n \in 0..MaxFstabLines}

InitFstab ==
    /\ ScriptStart
    /\ \E exists \in BOOLEAN, lines \in FstabFiles :
          /\ exists \/ lines = <<>>
          /\ os = [TypicalOS EXCEPT !.fstab = [exists |-> exists, lines |-> lines],
                      !.df = << [mount |-> "/home", use |-> 50],
                                [mount |-> "/tmp", use |-> 50] >>]
    /\ ini = [k \in {} |-> <<>>]

\* The content of /proc/meminfo: no file, or a file with any of the
\* retained keys beside a key get_meminfo drops, MemTotal being 0 or not
InitMeminfo ==
    /\ ScriptStart
    /\ \/ \E D \in SUBSET MeminfoKeys, total \in {0, TotalKiB} :
             os = [TypicalOS EXCEPT !.meminfo.kv =
                      [k \in D \cup {"MemAvailable"} |->
                          IF k = "MemTotal" THEN total ELSE HealthyMeminfo[k]]]
       \/ os = [TypicalOS EXCEPT !.meminfo.exists = FALSE]
    /\ ini = [k \in {} |-> <<>>]

Init ==
    \/ InitProbes
    \/ InitMeminfo
    \/ InitThresholds
    \/ InitDisk
    \/ InitMemory
    \/ InitServices
    \/ InitFstab

Spec == Init /\ [][Next]_vars
SpecProbes == InitProbes /\ [][Next]_vars
SpecThresholds == InitThresholds /\ [][Next]_vars
SpecDisk == InitDisk /\ [][Next]_vars
SpecMemory == InitMemory /\ [][Next]_vars
SpecServices == InitServices /\ [][Next]_vars
SpecFstab == InitFstab /\ [][Next]_vars
SpecMeminfo == InitMeminfo /\ [][Next]_vars
SpecClassify == (InitDisk \/ InitMemory) /\ [][Next]_vars

----------------------------------------------------------------------------
(* A direct call of get_checked_services in the module's namespace, where *)
(* services_to_monitor is whatever the settings made it.                  *)

InitCall ==
    /\ Unassigned
    /\ \E global \in SUBSET Services, arg \in SUBSET Services,
          pgrep \in ToolStatus, procs \in [Services -> 0..MaxProcs] :
            /\ os = [TypicalOS EXCEPT !.tools["pgrep"] = pgrep, !.procs = procs]
            /\ ini = [k \in {"services_to_monitor"} |-> <<>>]
            /\ services_to_monitor = global
            /\ call = arg
            /\ pc = "call"

CallGetCheckedServices ==
    /\ pc = "call" /\ exc = "none"
    /\ checked_services' = get_checked_services(call)
    /\ pc' = "returned"
    /\ UNCHANGED <<os, ini, exc, config, fs_exclude, ports_to_monitor,
                   services_to_monitor, DISK_WARNING, DISK_CRITICAL,
                   MEM_WARNING, MEM_CRITICAL, SWAP_WARNING, SWAP_CRITICAL,
                   hostname, uptime, iface, ip, users, mount_points,
                   disk_space, meminfo, checked_ports, columns,
                   disk_status_color, memory_status_color,
                   services_ports_status_color, percents, todo, call>>

NextCall == CallGetCheckedServices

SpecCall == InitCall /\ [][NextCall]_vars


----------------------------------------------------------------------------
(* What the claims speak of *)

\* the statements of the script in the order a run executes them
Statements ==
    << "config", "hostname", "uptime", "iface", "ip", "users",
       "mount_points", "disk_space", "meminfo", "checked_ports",
       "checked_services", "disk_status", "disk_loop", "disk_header",
       "memory", "memory_status", "memory_rows", "memory_header",
       "services_status", "partition_rows", "status_rows", "print", "done" >>

Position(p) == CHOOSE i \in DOMAIN Statements : Statements[i] = p

\* the run has executed statement p to its end
Past(p) == pc \in {Statements[i] : i \in DOMAIN Statements}
           /\ Position(pc) > Position(p)

\* the severities, as the colours that show them
critical == red
warning == orange
normal == green

\* the classification rule of the specification
Severity(v, warn, crit) ==
    IF v >= crit THEN critical
    ELSE IF warn <= v /\ v < crit THEN warning
    ELSE normal

Rank(severity) ==
    CASE severity = critical -> 2
      [] severity = warning -> 1
      [] OTHER -> 0

\* the worst of a non-empty set of severities
Worst(severities) ==
    CHOOSE s \in severities : \A x \in severities : Rank(x) <= Rank(s)

\* the rows of a column that show a percentage
PartitionRowsOf(col) == SelectSeq(col, LAMBDA r : r.percent.t = "int")

\* C1: every partition row is coloured by the rule with the disk
\* thresholds, one row for each reported mount point once the loop over
\* the partitions has ended, and the Memory, Buffers and Cached rows are
\* coloured by the rule with the memory thresholds, all three being there
\* once add_memory_row has been called for the five rows.
C1_RowsFollowTheRule ==
    /\ \A i \in DOMAIN columns[0] :
          columns[0][i].percent.t = "int" =>
              columns[0][i].color =
                  Severity(columns[0][i].percent.v, DISK_WARNING, DISK_CRITICAL)
    /\ Past("partition_rows") =>
          PartitionRowsOf(columns[0]) =
              [i \in DOMAIN disk_space |->
                  Row(Severity(disk_space[i].use, DISK_WARNING, DISK_CRITICAL),
                      disk_space[i].mount, IntVal(disk_space[i].use))]
    /\ \A i \in DOMAIN columns[1] :
          columns[1][i].title \in {"Memory", "Buffers", "Cached"} =>
              columns[1][i].color =
                  Severity(columns[1][i].percent.v, MEM_WARNING, MEM_CRITICAL)
    /\ (Past("memory_rows") /\ DOMAIN meminfo # {}) =>
          \A title \in {"Memory", "Buffers", "Cached"} :
              \E i \in DOMAIN columns[1] : columns[1][i].title = title

\* C1 witness: the script has printed a Buffers row coloured critical
\* under memory thresholds with warning > critical, the percentage lying
\* between the two, beside a partition row coloured warning.
C1_Witness ==
    /\ pc = "done"
    /\ MEM_WARNING > MEM_CRITICAL
    /\ \E i \in DOMAIN columns[1] :
          /\ columns[1][i].title = "Buffers"
          /\ columns[1][i].color = critical
          /\ columns[1][i].percent.v < MEM_WARNING
    /\ \E i \in DOMAIN columns[0] :
          /\ columns[0][i].percent.t = "int"
          /\ columns[0][i].color = warning


\* the severity of the mount points df reported, by the maximum rule
WorstOfDisks ==
    IF disk_space = <<>> THEN normal
    ELSE Worst({Severity(disk_space[i].use, DISK_WARNING, DISK_CRITICAL) :
                   i \in DOMAIN disk_space})

\* C2: once the rollup loop has visited every reported mount point, the
\* disk status has the worst of their severities (normal when there is
\* none); and while the loop runs, a status that is critical stays
\* critical.
C2_DiskRollupIsWorst ==
    /\ [](Past("disk_loop") => disk_status_color = WorstOfDisks)
    /\ [][(pc = "disk_loop" /\ disk_status_color = critical)
              => disk_status_color' = critical]_vars

\* C2 witness: the loop has ended on critical although the mount point it
\* visited last is below the warning threshold.
C2_Witness ==
    /\ pc = "disk_header"
    /\ Len(disk_space) >= 2
    /\ disk_status_color = critical
    /\ disk_space[Len(disk_space)].use < DISK_WARNING
    /\ disk_space[Len(disk_space)].use < DISK_CRITICAL

\* the four percentages the memory status looks at, each with the
\* severity the rule gives it under its own thresholds
MemorySeverities ==
    { Severity(percents.mem_perc.v, MEM_WARNING, MEM_CRITICAL),
      Severity(percents.swap_perc.v, SWAP_WARNING, SWAP_CRITICAL),
      Severity(percents.buffers_perc.v, MEM_WARNING, MEM_CRITICAL),
      Severity(percents.cached_perc.v, MEM_WARNING, MEM_CRITICAL) }

HasMemoryData == DOMAIN meminfo # {}

\* C3: with memory data and SwapTotal > 0, the memory status the script
\* has computed is the worst of the severities of memory%, buffers% and
\* cached% under the memory thresholds and of swap% under the swap
\* thresholds; without memory data it is normal.
C3_MemoryRollupIsWorst ==
    /\ (Past("memory_status") /\ HasMemoryData /\ meminfo["SwapTotal"] > 0)
          => memory_status_color = Worst(MemorySeverities)
    /\ (Past("memory") /\ ~HasMemoryData)
          => memory_status_color = normal

\* C3 witness: the status is critical by the swap percentage alone, which
\* the memory thresholds would class as normal.
C3_Witness ==
    /\ pc = "done"
    /\ HasMemoryData
    /\ meminfo["SwapTotal"] > 0
    /\ memory_status_color = critical
    /\ percents.swap_perc.v >= SWAP_CRITICAL
    /\ percents.swap_perc.v < MEM_WARNING
    /\ percents.swap_perc.v < MEM_CRITICAL
    /\ Severity(percents.mem_perc.v, MEM_WARNING, MEM_CRITICAL) = normal
    /\ Severity(percents.buffers_perc.v, MEM_WARNING, MEM_CRITICAL) = normal
    /\ Severity(percents.cached_perc.v, MEM_WARNING, MEM_CRITICAL) = normal


\* the run has read memory data in which SwapTotal is 0
SwapTotalIsZero ==
    /\ Past("meminfo")
    /\ "SwapTotal" \in DOMAIN meminfo
    /\ meminfo["SwapTotal"] = 0

\* C4, as claimed: with memory data in which SwapTotal = 0 no statement
\* raises, swap is shown by the placeholder, its row and its share of the
\* memory status are normal, and the run goes on past the memory section.
C4_SwapZeroIsHarmless ==
    SwapTotalIsZero =>
        /\ exc = "none"
        /\ Past("memory") => percents.swap_perc = Dashes
        /\ Past("memory_status") =>
              memory_status_color =
                  Worst({ Severity(percents.mem_perc.v, MEM_WARNING, MEM_CRITICAL),
                          Severity(percents.buffers_perc.v, MEM_WARNING, MEM_CRITICAL),
                          Severity(percents.cached_perc.v, MEM_WARNING, MEM_CRITICAL),
                          normal })
        /\ Past("memory_rows") =>
              \E i \in DOMAIN columns[1] :
                  /\ columns[1][i].title = "Swap"
                  /\ columns[1][i].percent = Dashes
                  /\ columns[1][i].color = normal

\* what get_listening_ports has observed
Observed ==
    {<<l.port, l.proto>> : l \in {x \in os.netstat : is_listening(x)}}

\* a process named s is running
Running(s) == os.procs[s] >= 1

\* C5: the services/ports status is ok (green) exactly when every
\* monitored (port, protocol) pair is in the observed listening set and
\* every monitored service is running, and degraded (red) otherwise.
C5_ServicesStatus ==
    Past("services_status") =>
        services_ports_status_color =
            IF ports_to_monitor \subseteq Observed
               /\ \A s \in services_to_monitor : Running(s)
            THEN green
            ELSE red

\* C5 witness: ports and services are monitored, all of them are up, and
\* the status is ok.
C5_Witness ==
    /\ pc = "done"
    /\ ports_to_monitor # {}
    /\ services_to_monitor # {}
    /\ ports_to_monitor \subseteq Observed
    /\ \A s \in services_to_monitor : Running(s)
    /\ services_ports_status_color = green

\* C6, as claimed: a tool that is absent or exits with an error costs
\* only its own field, which takes its unknown, empty or not-running
\* value, and the run goes on to the probes after it.
C6_ProbesNeverAbort ==
    /\ exc # "CalledProcessError"
    /\ (Past("hostname") /\ os.tools["hostname"] # "ok") => hostname = UNKNOWN
    /\ (Past("uptime") /\ os.tools["uptime"] # "ok") => uptime = UNKNOWN_UPTIME
    /\ (Past("ip") /\ os.tools["ip"] # "ok") => ip = UNKNOWN_ADDRESS
    /\ (Past("users") /\ os.tools["who"] # "ok") => users = {}
    /\ (Past("disk_space") /\ os.tools["df"] # "ok") => disk_space = <<>>
    /\ (Past("checked_ports") /\ os.tools["netstat"] # "ok") =>
          \A p \in DOMAIN checked_ports : ~checked_ports[p]
    /\ (Past("checked_services") /\ os.tools["pgrep"] # "ok") =>
          \A s \in DOMAIN checked_services : ~checked_services[s]

\* C7: get_checked_ports maps exactly the monitored pairs, each to whether
\* that very pair, number and protocol, is in the observed listening set.
C7_CheckedPorts ==
    Past("checked_ports") =>
        /\ DOMAIN checked_ports = ports_to_monitor
        /\ \A p \in ports_to_monitor : checked_ports[p] <=> p \in Observed
        /\ \A p \in ports_to_monitor :
              (p[2] = "tcp" /\ checked_ports[p]) => <<p[1], "tcp">> \in Observed

\* C7 witness: port 80/tcp is monitored and not listening while 80/udp,
\* 80/tcp6 and 80/udp6 are, and another monitored pair is listening.
C7_Witness ==
    /\ Past("checked_ports")
    /\ <<80, "tcp">> \in ports_to_monitor
    /\ ~checked_ports[<<80, "tcp">>]
    /\ {<<80, "udp">>, <<80, "tcp6">>, <<80, "udp6">>} \subseteq Observed
    /\ \E p \in ports_to_monitor : checked_ports[p]

\* C8, as claimed: the dict get_checked_services returns has exactly the
\* names it was passed, each mapped to whether pgrep found at least one
\* process of that name.
C8_CheckedServicesOfArgument ==
    pc = "returned" =>
        /\ DOMAIN checked_services = call
        /\ \A s \in call :
              checked_services[s] <=>
                  (os.tools["pgrep"] = "ok" /\ os.procs[s] >= 1)

\* the threshold the classifier uses for a key of the settings
Effective(k) ==
    CASE k = "disk_warning" -> DISK_WARNING
      [] k = "disk_critical" -> DISK_CRITICAL
      [] k = "mem_warning" -> MEM_WARNING
      [] k = "mem_critical" -> MEM_CRITICAL
      [] k = "swap_warning" -> SWAP_WARNING
      [] k = "swap_critical" -> SWAP_CRITICAL

\* C9, as claimed: a threshold that is set to an integer, 0 included, is
\* used as it is; the default is used exactly when the setting is absent
\* or is not an integer.
C9_ThresholdsAsConfigured ==
    Past("config") =>
        \A k \in ThresholdKeys :
            Effective(k) =
                IF k \in DOMAIN ini /\ ini[k].t = "int"
                THEN ini[k].v
                ELSE DefaultThreshold(k)

\* the mount points of /etc/fstab by the rule of the specification
RealMountPoints ==
    IF ~os.fstab.exists THEN {}
    ELSE {os.fstab.lines[i][2] :
             i \in {j \in DOMAIN os.fstab.lines :
                       LET l == os.fstab.lines[j]
                       IN  /\ ~pattern_match(l)
                           /\ Len(l) >= 2
                           /\ l[1] \notin ignore_words
                           /\ (Len(l) >= 3 => l[3] # "swap")}}

\* C10, as claimed: whatever the lines of /etc/fstab, get_mount_points
\* raises nothing and returns the mount points of the entries that are
\* neither comments, nor pseudo-filesystems, nor swap.
C10_MountPoints ==
    /\ pc = "mount_points" => exc = "none"
    /\ Past("mount_points") => mount_points = RealMountPoints


\* C11, as claimed: the memory information the memory section consumes is
\* never partial: it is empty (no memory data), or it holds all seven
\* counters with MemTotal > 0, so the section never reads an absent
\* counter and never divides by a MemTotal of 0.
C11_MeminfoNeverPartial ==
    /\ Past("meminfo") =>
          \/ ~HasMemoryData
          \/ /\ MeminfoKeys \subseteq DOMAIN meminfo
             /\ meminfo["MemTotal"] > 0
    /\ exc \notin {"KeyError", "ZeroDivisionError"}

====
